---- MODULE Spec2Model ----
(***************************************************************************)
(* LinkedIn Network MCP server (server.py): the per-request credential,   *)
(* the lazily created connection pool, the tenant-scoped queries and the   *)
(* exports, as a state machine of concurrently in-flight calls.            *)
(*                                                                         *)
(* Text is a sequence of chunks.  A chunk is one character ("a", "'", "%") *)
(* or, in SQL text, one lexical unit of the statement (" OR ", "TRUE").    *)
(* Python's None is the value None below, which no text equals.            *)
(***************************************************************************)
EXTENDS Integers, Sequences, FiniteSets, TLC

\* ------------------------------------------------------------------------
\* Bounds of the model
\* ------------------------------------------------------------------------
\* Number of call slots (requests that can be in flight at the same time).
NumCalls == 2
\* Connections a pool hands out at once (asyncpg's max_size, scaled down).
MaxPoolSize == 1

Calls == 1..NumCalls

\* ------------------------------------------------------------------------
\* Python values
\* ------------------------------------------------------------------------
None == <<"<None>">>

\* bool(v) for an optional string
Truthy(v) == v # None /\ v # <<>>

\* a or b
PyOr(a, b) == IF Truthy(a) THEN a ELSE b

\* str.lower(), per character
LowerChar(ch) ==
    CASE ch = "A" -> "a"
      [] ch = "B" -> "b"
      [] ch = "F" -> "f"
      [] ch = "L" -> "l"
      [] ch = "N" -> "n"
      [] ch = "T" -> "t"
      [] ch = "U" -> "u"
      [] OTHER -> ch

Lower(s) == [i \in 1..Len(s) |-> LowerChar(s[i])]

\* s.startswith(p)
StartsWith(s, p) == Len(s) >= Len(p) /\ SubSeq(s, 1, Len(p)) = p

RECURSIVE LStrip(_)
LStrip(s) == IF s # <<>> /\ Head(s) = " " THEN LStrip(Tail(s)) ELSE s

RECURSIVE RStrip(_)
RStrip(s) ==
    IF s # <<>> /\ s[Len(s)] = " " THEN RStrip(SubSeq(s, 1, Len(s) - 1)) ELSE s

\* str.strip()
Strip(s) == RStrip(LStrip(s))

\* s.split(" ", 1)[1], for an s that contains a space
RECURSIVE AfterFirstSpace(_)
AfterFirstSpace(s) ==
    IF s = <<>> THEN <<>>
    ELSE IF Head(s) = " " THEN Tail(s)
    ELSE AfterFirstSpace(Tail(s))

\* ------------------------------------------------------------------------
\* Tenants and the people table
\* ------------------------------------------------------------------------
K0 == <<"k", "0">>
K1 == <<"k", "1">>
K2 == <<"k", "2">>

\* The rows of the table, in heap order (the order a query without ORDER BY
\* may or may not follow).  Tenant K0 has no rows.
People == <<
    [user_id |-> K1, full_name |-> <<"b", "a">>, current_company |-> <<"x">>,
     keywords |-> <<"a", "i", ",", "v", "c">>],
    [user_id |-> K1, full_name |-> <<"a", "b">>, current_company |-> None,
     keywords |-> <<"v", "c">>],
    [user_id |-> K2, full_name |-> <<"a", "b">>, current_company |-> <<"x">>,
     keywords |-> <<"a", "i">>],
    [user_id |-> K1, full_name |-> <<"c">>, current_company |-> <<"y">>,
     keywords |-> None]
>>

RowIds == 1..Len(People)

TenantRows(user_id) == {r \in RowIds : People[r].user_id = user_id}

\* Collation of the characters that occur in names
Alphabet == <<" ", "'", "%", ",", "A", "B", "a", "b", "c", "i", "v", "x", "y", "z">>

CharRank(ch) == CHOOSE i \in 1..Len(Alphabet) : Alphabet[i] = ch

\* a < b for two texts, as ORDER BY compares them
RECURSIVE TextLess(_, _)
TextLess(a, b) ==
    IF b = <<>> THEN FALSE
    ELSE IF a = <<>> THEN TRUE
    ELSE IF Head(a) = Head(b) THEN TextLess(Tail(a), Tail(b))
    ELSE CharRank(Head(a)) < CharRank(Head(b))

\* text ILIKE pattern: % matches any run of characters, case is ignored,
\* and a NULL operand makes the comparison NULL (no match)
RECURSIVE LikeMatch(_, _)
LikeMatch(s, p) ==
    IF p = <<>> THEN s = <<>>
    ELSE IF Head(p) = "%"
        THEN LikeMatch(s, Tail(p)) \/ (s # <<>> /\ LikeMatch(Tail(s), p))
    ELSE s # <<>> /\ LowerChar(Head(s)) = LowerChar(Head(p))
                  /\ LikeMatch(Tail(s), Tail(p))

ILike(value, pattern) == value # None /\ LikeMatch(value, pattern)

\* f"%{query}%"
Wrap(q) == <<"%">> \o q \o <<"%">>

\* value contains kw literally, case ignored
Contains(value, kw) ==
    /\ value # None
    /\ \E i \in 0..(Len(value) - Len(kw)) :
         Lower(SubSeq(value, i + 1, i + Len(kw))) = Lower(kw)

\* ------------------------------------------------------------------------
\* The statement filter_by_keywords builds, and how the database reads it
\* ------------------------------------------------------------------------
\* " OR ".join(conds)
RECURSIVE JoinOr(_)
JoinOr(conds) ==
    IF conds = <<>> THEN <<>>
    ELSE IF Len(conds) = 1 THEN Head(conds)
    ELSE Head(conds) \o <<"OR">> \o JoinOr(Tail(conds))

\* f"keywords::text ILIKE '%{kw}%'"
KeywordCondition(kw) ==
    <<"keywords::text ILIKE", "'", "%">> \o kw \o <<"%", "'">>

\* keyword_conditions and the f-string around it, from WHERE on
FilterQueryText(keywords) ==
    <<"user_id = $1", "AND", "(">>
        \o JoinOr([i \in 1..Len(keywords) |-> KeywordCondition(keywords[i])])
        \o <<")", "\n", "LIMIT $2">>

\* Index of the quote that closes the string literal whose body starts at j
\* ('' inside a literal is an escaped quote); 0 when the literal is unterminated
RECURSIVE StringEnd(_, _)
StringEnd(text, j) ==
    IF j > Len(text) THEN 0
    ELSE IF text[j] = "'"
        THEN IF j + 1 <= Len(text) /\ text[j + 1] = "'"
             THEN StringEnd(text, j + 2)
             ELSE j
    ELSE StringEnd(text, j + 1)

RECURSIVE Unquote(_)
Unquote(s) ==
    IF s = <<>> THEN <<>>
    ELSE IF Head(s) = "'" /\ Len(s) >= 2 /\ s[2] = "'"
        THEN <<"'">> \o Unquote(Tail(Tail(s)))
    ELSE <<Head(s)>> \o Unquote(Tail(s))

\* Index of the end of the line that position i is on
RECURSIVE LineEnd(_, _)
LineEnd(text, i) ==
    IF i > Len(text) THEN Len(text)
    ELSE IF text[i] = "\n" THEN i
    ELSE LineEnd(text, i + 1)

\* The database's lexer: string literals, -- comments, white space, and
\* every other chunk a token of its own
RECURSIVE Lex(_, _, _)
Lex(text, i, acc) ==
    IF i > Len(text) THEN acc
    ELSE IF text[i] = "'"
        THEN LET e == StringEnd(text, i + 1) IN
             IF e = 0
             THEN Append(acc, [t |-> "unterminated", v |-> <<>>])
             ELSE Lex(text, e + 1,
                      Append(acc, [t |-> "str",
                                   v |-> Unquote(SubSeq(text, i + 1, e - 1))]))
    ELSE IF text[i] = "--" THEN Lex(text, LineEnd(text, i) + 1, acc)
    ELSE IF text[i] \in {" ", "\n"} THEN Lex(text, i + 1, acc)
    ELSE Lex(text, i + 1, Append(acc, [t |-> "sym", v |-> <<text[i]>>]))

IsSym(toks, i, sym) == i <= Len(toks) /\ toks[i].t = "sym" /\ toks[i].v = <<sym>>

SyntaxError == [ok |-> FALSE, val |-> FALSE, pos |-> 0]

\* The database's parser for a WHERE condition, evaluated on one row with
\* $1 bound to uid.  AND binds tighter than OR.
RECURSIVE ParseExpr(_, _, _, _)
RECURSIVE ParseOrTail(_, _, _, _, _)
RECURSIVE ParseAnd(_, _, _, _)
RECURSIVE ParseAndTail(_, _, _, _, _)
RECURSIVE ParsePrim(_, _, _, _)

ParsePrim(toks, i, row, uid) ==
    IF IsSym(toks, i, "(")
        THEN LET e == ParseExpr(toks, i + 1, row, uid) IN
             IF e.ok /\ IsSym(toks, e.pos, ")")
             THEN [ok |-> TRUE, val |-> e.val, pos |-> e.pos + 1]
             ELSE SyntaxError
    ELSE IF IsSym(toks, i, "TRUE")
        THEN [ok |-> TRUE, val |-> TRUE, pos |-> i + 1]
    ELSE IF IsSym(toks, i, "user_id = $1")
        THEN [ok |-> TRUE, val |-> (row.user_id = uid), pos |-> i + 1]
    ELSE IF IsSym(toks, i, "keywords::text ILIKE")
            /\ i + 1 <= Len(toks) /\ toks[i + 1].t = "str"
        THEN [ok |-> TRUE, val |-> ILike(row.keywords, toks[i + 1].v),
              pos |-> i + 2]
    ELSE SyntaxError

ParseAndTail(toks, left, i, row, uid) ==
    IF IsSym(toks, i, "AND")
        THEN LET r == ParsePrim(toks, i + 1, row, uid) IN
             IF r.ok THEN ParseAndTail(toks, left /\ r.val, r.pos, row, uid)
             ELSE SyntaxError
    ELSE [ok |-> TRUE, val |-> left, pos |-> i]

ParseAnd(toks, i, row, uid) ==
    LET l == ParsePrim(toks, i, row, uid) IN
    IF l.ok THEN ParseAndTail(toks, l.val, l.pos, row, uid) ELSE SyntaxError

ParseOrTail(toks, left, i, row, uid) ==
    IF IsSym(toks, i, "OR")
        THEN LET r == ParseAnd(toks, i + 1, row, uid) IN
             IF r.ok THEN ParseOrTail(toks, left \/ r.val, r.pos, row, uid)
             ELSE SyntaxError
    ELSE [ok |-> TRUE, val |-> left, pos |-> i]

ParseExpr(toks, i, row, uid) ==
    LET l == ParseAnd(toks, i, row, uid) IN
    IF l.ok THEN ParseOrTail(toks, l.val, l.pos, row, uid) ELSE SyntaxError

\* WHERE <condition> LIMIT $2, and nothing after it
ParseWhere(text, row, uid) ==
    LET toks == Lex(text, 1, <<>>)
        e == ParseExpr(toks, 1, row, uid)
    IN  IF e.ok /\ IsSym(toks, e.pos, "LIMIT $2") /\ e.pos = Len(toks)
        THEN e ELSE SyntaxError

\* The statement is accepted by the database
WellFormed(text) == ParseWhere(text, People[1], None).ok

\* The rows the statement selects, before LIMIT
Selected(text, uid) == {r \in RowIds : ParseWhere(text, People[r], uid).val}

\* What the statement is meant to select: rows of the tenant whose keyword
\* text contains one of the keywords
MatchesAnyKeyword(r, keywords) ==
    \E i \in 1..Len(keywords) : Contains(People[r].keywords, keywords[i])

\* ------------------------------------------------------------------------
\* What a call arrives with
\* ------------------------------------------------------------------------
Bearer == <<"B", "e", "a", "r", "e", "r", " ">>

NoHeaders ==
    [api_key |-> None, x_api_key |-> None, api_dash_key |-> None,
     authorization |-> None]

\* Inbound header sets (names already lower-cased, absent headers None)
HeaderSets == {
    NoHeaders,
    [NoHeaders EXCEPT !.x_api_key = K1],
    [NoHeaders EXCEPT !.authorization = Bearer \o K2],
    [NoHeaders EXCEPT !.api_key = <<>>, !.api_dash_key = K0],
    [NoHeaders EXCEPT !.authorization = Bearer \o <<" ">>] }

\* Values of the API_KEY environment variable
EnvValues == {None, <<>>, K1}

SearchTerms == {<<>>, <<"A", "I">>}
Names == {<<"a">>, <<"c">>, <<"z">>}
Limits == {1, 2}
Injection == <<"'", ")", "OR", "TRUE", "--">>
KeywordLists == {
    <<>>,
    << <<"a", "i">> >>,
    << <<"z">>, <<"v", "c">> >>,
    << <<"o", "'", "b">> >>,
    << <<"'", "'">> >>,
    << <<"%">> >>,
    << Injection >> }

NoInput == [op |-> "none", name |-> <<>>, keywords |-> <<>>, limit |-> 0]

ToolInputs ==
    {[NoInput EXCEPT !.op = "search_network", !.name = q, !.limit = l] :
        q \in SearchTerms, l \in Limits}
    \cup {[NoInput EXCEPT !.op = "get_profile", !.name = n] : n \in Names}
    \cup {[NoInput EXCEPT !.op = "filter_by_keywords", !.keywords = k, !.limit = l] :
        k \in KeywordLists, l \in Limits}
    \cup {[NoInput EXCEPT !.op = "analyze_network"]}
    \cup {[NoInput EXCEPT !.op = "export_network_table", !.limit = l] : l \in Limits}
    \cup {[NoInput EXCEPT !.op = "export_network_csv"]}

\* The inputs of the calls that run concurrently: every tool once, and
\* filter_by_keywords also with the keyword that carries SQL
ConcurrentInputs ==
    {in \in ToolInputs :
        /\ in.limit \in {0, 2}
        /\ in.name \in {<<>>, <<"a">>}
        /\ in.keywords \in {<<>>, << <<"a", "i">> >>, << Injection >>}
        /\ in.op = "filter_by_keywords" => in.keywords # <<>>}

\* ------------------------------------------------------------------------
\* State
\* ------------------------------------------------------------------------
VARIABLES
    os_environ,       \* the API_KEY variable of the process environment
    API_KEY,          \* the module global read from it at import
    db_pool,          \* the module global: 0 is None, n > 0 the n-th pool made
    pools_created,    \* how many pools asyncpg.create_pool has made
    borrowed,         \* per pool, the connections out of it
    current_api_key,  \* the ContextVar: its value in each call's own context
    call,             \* per call: where it is, its arguments, locals, outcome
    file,             \* linkedin_network_export.csv in the working directory
    person,           \* the row an export is formatting, and what it made of it
    script            \* the command-line script that runs, and the files it left

vars == <<os_environ, API_KEY, db_pool, pools_created, borrowed,
          current_api_key, call, file, person, script>>

PoolIds == 1..NumCalls

NoOutcome ==
    [kind |-> "none", form |-> "", keys |-> {}, status |-> "", message |-> "",
     rows |-> {}]

Idle ==
    [pc |-> "idle", scope |-> "", headers |-> NoHeaders, input |-> NoInput,
     token |-> None, user_id |-> None, pool |-> 0, queries |-> 0,
     out |-> NoOutcome]

\* ------------------------------------------------------------------------
\* HeaderToContextMiddleware and get_user_id
\* ------------------------------------------------------------------------
\* The api_key the middleware takes from the headers
HeaderKey(headers) ==
    LET api_key == PyOr(PyOr(PyOr(headers.api_key, headers.x_api_key),
                             headers.api_dash_key), headers.authorization)
    IN  IF Truthy(api_key) /\ StartsWith(Lower(api_key), Lower(Bearer))
        THEN Strip(AfterFirstSpace(api_key))
        ELSE api_key

\* current_api_key.set(value) in the context of call c; the token keeps the
\* old value
ContextSet(ctx, c, value) == [ctx EXCEPT ![c] = value]

\* The header sets of the calls that run concurrently: each carries the
\* credential of a tenant that has rows
ConcurrentHeaders == {h \in HeaderSets : HeaderKey(h) \in {K1, K2}}

\* (mutant) the reset is skipped when the app raised
ContextResetOnReturnOnly(ctx, c, token, kind) ==
    IF kind = "raise" THEN ctx ELSE [ctx EXCEPT ![c] = token]

\* finally: current_api_key.reset(token), on return and on raise alike
ContextReset(ctx, c, token, kind) == [ctx EXCEPT ![c] = token]

\* (mutant) the environment is consulted before the call's own context
get_user_id_env_first(header_key, environ, api_key) ==
    LET user_id == PyOr(PyOr(environ, api_key), header_key)
    IN  IF ~Truthy(user_id) THEN None ELSE user_id

\* get_user_id: the resolved id, or None where it raises
get_user_id(header_key, environ, api_key) ==
    LET user_id == PyOr(PyOr(header_key, environ), api_key)
    IN  IF ~Truthy(user_id) THEN None ELSE user_id

\* ------------------------------------------------------------------------
\* Queries and payloads
\* ------------------------------------------------------------------------
Min(a, b) == IF a <= b THEN a ELSE b

\* ORDER BY full_name: the rows of S as a sequence, ascending by name
RECURSIVE OrderByName(_)
OrderByName(S) ==
    IF S = {} THEN <<>>
    ELSE LET first == CHOOSE r \in S : \A o \in S :
                          ~TextLess(People[o].full_name, People[r].full_name)
         IN  <<first>> \o OrderByName(S \ {first})

Range(seq) == {seq[i] : i \in 1..Len(seq)}

\* LIMIT n on an ordered result
FirstN(seq, n) == SubSeq(seq, 1, Min(n, Len(seq)))

\* LIMIT n on a result with no ORDER BY: any n of the selected rows
LimitAny(sel, n) == {rs \in SUBSET sel : Cardinality(rs) = Min(n, Cardinality(sel))}

\* An exception inside a tool: the two exports catch it and return a payload,
\* the other tools let it propagate
OnException(op, text) ==
    IF op = "export_network_table"
        THEN [NoOutcome EXCEPT !.kind = "return", !.form = "text",
                               !.message = "Error accessing database: " \o text]
    ELSE IF op = "export_network_csv"
        THEN [NoOutcome EXCEPT !.kind = "return", !.form = "json_object",
                               !.keys = {"status", "message"}, !.status = "error",
                               !.message = "Export failed: " \o text]
    ELSE [NoOutcome EXCEPT !.kind = "raise", !.message = text]

JsonList(rs) ==
    [NoOutcome EXCEPT !.kind = "return", !.form = "json_list", !.rows = rs]

\* The WHERE clause of search_network on row r
SearchMatches(r, user_id, query) ==
    /\ People[r].user_id = user_id
    /\ \/ ILike(People[r].full_name, Wrap(query))
       \/ ILike(People[r].current_company, Wrap(query))
       \/ ILike(People[r].keywords, Wrap(query))

\* The outcomes of each tool once its query has run without a database
\* failure (a set: a query without ORDER BY may return its rows in any order)
search_network(user_id, query, limit) ==
    {JsonList(rs) :
        rs \in LimitAny({r \in RowIds : SearchMatches(r, user_id, query)}, limit)}

\* (mutant) the row is serialized without the check for no row
ProfilePayloadUnchecked(r) ==
    IF r # 0
    THEN [NoOutcome EXCEPT !.kind = "return", !.form = "json_object", !.rows = {r}]
    ELSE [NoOutcome EXCEPT !.kind = "raise",
                           !.message = "'NoneType' object is not iterable"]

\* What get_profile returns for the row fetchrow gave it (0: no row)
ProfilePayload(r) ==
    IF r # 0
    THEN [NoOutcome EXCEPT !.kind = "return", !.form = "json_object", !.rows = {r}]
    ELSE [NoOutcome EXCEPT !.kind = "return", !.form = "json_object",
                           !.keys = {"error"}, !.message = "No profile found for: "]

ProfileMatches(user_id, name) ==
    {r \in RowIds : People[r].user_id = user_id
                    /\ ILike(People[r].full_name, Wrap(name))}

get_profile(user_id, name) ==
    LET sel == ProfileMatches(user_id, name)
    IN  IF sel = {} THEN {ProfilePayload(0)} ELSE {ProfilePayload(r) : r \in sel}

filter_by_keywords(user_id, keywords, limit) ==
    LET text == FilterQueryText(keywords)
    IN  IF ~WellFormed(text)
        THEN {OnException("filter_by_keywords", "syntax error")}
        ELSE {JsonList(rs) : rs \in LimitAny(Selected(text, user_id), limit)}

analyze_network(user_id) ==
    {[NoOutcome EXCEPT !.kind = "return", !.form = "json_object",
                       !.keys = {"overview", "top_keywords", "top_companies"},
                       !.rows = TenantRows(user_id)]}

export_network_table(user_id, limit) ==
    LET results == FirstN(OrderByName(TenantRows(user_id)), limit)
    IN  IF Len(results) = 0
        THEN {[NoOutcome EXCEPT !.kind = "return", !.form = "text",
                                !.message = "No data found in your network."]}
        ELSE {[NoOutcome EXCEPT !.kind = "return", !.form = "text",
                                !.rows = Range(results)]}

\* (mutant) the zero-row check is missing
IsEmptyResultNever(results) == FALSE

\* The zero-row check of export_network_csv
IsEmptyResult(results) == Len(results) = 0

export_network_csv(user_id) ==
    LET results == OrderByName(TenantRows(user_id))
    IN  IF IsEmptyResult(results)
        THEN {[NoOutcome EXCEPT !.kind = "return", !.form = "json_object",
                                !.keys = {"status", "message"}, !.status = "error",
                                !.message = "No data found in your network."]}
        ELSE {[NoOutcome EXCEPT !.kind = "return", !.form = "json_object",
                                !.keys = {"status", "filename", "filepath",
                                          "row_count", "size_kb", "csv_base64",
                                          "message"},
                                !.status = "success",
                                !.message = "Successfully exported",
                                !.rows = Range(results)]}

ToolOutcomes(user_id, input) ==
    CASE input.op = "search_network" ->
            search_network(user_id, input.name, input.limit)
      [] input.op = "get_profile" -> get_profile(user_id, input.name)
      [] input.op = "filter_by_keywords" ->
            filter_by_keywords(user_id, input.keywords, input.limit)
      [] input.op = "analyze_network" -> analyze_network(user_id)
      [] input.op = "export_network_table" ->
            export_network_table(user_id, input.limit)
      [] input.op = "export_network_csv" -> export_network_csv(user_id)

\* How many queries a tool has issued when it returns: analyze_network runs
\* three, and a fourth when the first keyword query raised and it fell back
QueriesOnReturn(op) == IF op = "analyze_network" THEN {3, 4} ELSE {1}

\* ... and when a query of it raises
QueriesOnRaise(op) == IF op = "analyze_network" THEN {1, 3, 4} ELSE {1}

\* The file after export_network_csv returned outcome o
FileAfter(old, user_id, o) ==
    IF o.status = "success"
    THEN [exists |-> TRUE, rows |-> OrderByName(TenantRows(user_id))]
    ELSE old

\* (mutant) the connection is released on return only, not on raise
ReleaseOnReturnOnly(b, pool, kind) ==
    IF kind = "raise" THEN b ELSE [b EXCEPT ![pool] = @ - 1]

\* pool.release(conn) when the async with block is left, by return or raise
ReleaseConnection(b, pool, kind) == [b EXCEPT ![pool] = @ - 1]

\* ------------------------------------------------------------------------
\* Python text and values, as the formatting code handles them
\* ------------------------------------------------------------------------
\* str.isspace() of a character (space and newline occur in the data)
IsSpace(ch) == ch \in {" ", "\n"}

RECURSIVE LStripWs(_)
LStripWs(s) == IF s # <<>> /\ IsSpace(Head(s)) THEN LStripWs(Tail(s)) ELSE s

RECURSIVE RStripWs(_)
RStripWs(s) ==
    IF s # <<>> /\ IsSpace(s[Len(s)]) THEN RStripWs(SubSeq(s, 1, Len(s) - 1)) ELSE s

\* str.strip() with no argument: all leading and trailing whitespace
PyStrip(s) == RStripWs(LStripWs(s))

\* s.find(sep) + 1: the first position where sep occurs in s, 0 if nowhere
IndexOf(s, sep) ==
    LET at == {i \in 1..(Len(s) - Len(sep) + 1) : SubSeq(s, i, i + Len(sep) - 1) = sep}
    IN  IF at = {} THEN 0 ELSE CHOOSE i \in at : \A j \in at : i <= j

\* sep in s
In(sep, s) == IndexOf(s, sep) # 0

\* s.split(sep)
RECURSIVE Split(_, _)
Split(s, sep) ==
    LET i == IndexOf(s, sep)
    IN  IF i = 0 THEN <<s>>
        ELSE <<SubSeq(s, 1, i - 1)>> \o Split(SubSeq(s, i + Len(sep), Len(s)), sep)

\* The length of the run of non-whitespace characters s starts with
RECURSIVE WordLen(_)
WordLen(s) == IF s = <<>> \/ IsSpace(Head(s)) THEN 0 ELSE 1 + WordLen(Tail(s))

\* s.split() with no argument: the words between runs of whitespace
RECURSIVE SplitWs(_)
SplitWs(s) ==
    LET t == LStripWs(s)
        n == WordLen(t)
    IN  IF t = <<>> THEN <<>>
        ELSE <<SubSeq(t, 1, n)>> \o SplitWs(SubSeq(t, n + 1, Len(t)))

\* sep.join(parts)
RECURSIVE Join(_, _)
Join(sep, parts) ==
    IF parts = <<>> THEN <<>>
    ELSE IF Len(parts) = 1 THEN parts[1]
    ELSE parts[1] \o sep \o Join(sep, Tail(parts))

\* s.replace(old, new) for a one-character old
RECURSIVE Replace(_, _, _)
Replace(s, old, new) ==
    IF s = <<>> THEN <<>>
    ELSE (IF Head(s) = old THEN new ELSE <<Head(s)>>) \o Replace(Tail(s), old, new)

\* A Python value: t is its type, s its text (str, int, bool) or its key (a
\* dict item), items its elements (list), its items (dict) or its value
\* (dict item)
PyVal(t, s, items) == [t |-> t, s |-> s, items |-> items]
PyNone == PyVal("NoneType", <<>>, <<>>)
PyText(s) == PyVal("str", s, <<>>)
PyInt(s) == PyVal("int", s, <<>>)
PyBool(s) == PyVal("bool", s, <<>>)
PyList(items) == PyVal("list", <<>>, items)
PyDict(items) == PyVal("dict", <<>>, items)
PyItem(key, value) == PyVal("item", key, <<value>>)

\* bool(v)
PyTruthy(v) ==
    CASE v.t = "NoneType" -> FALSE
      [] v.t = "str" -> v.s # <<>>
      [] v.t = "int" -> v.s # <<"0">>
      [] v.t = "bool" -> v.s = <<"T", "r", "u", "e">>
      [] OTHER -> v.items # <<>>

\* a or b, on values
PyOrVal(a, b) == IF PyTruthy(a) THEN a ELSE b

\* d.get(key, default): the item stored last under the key
DictGet(d, key, default) ==
    LET at == {i \in 1..Len(d.items) : d.items[i].s = key}
    IN  IF at = {} THEN default
        ELSE d.items[CHOOSE i \in at : \A j \in at : j <= i].items[1]

\* repr() of a str: single quotes, unless it holds one and no double quote;
\* the quote used and the backslash are escaped, a newline is written \n
ReprText(s) ==
    LET q == IF In(<<"'">>, s) /\ ~In(<<"\"">>, s) THEN "\"" ELSE "'"
        esc(ch) == IF ch = "\\" THEN <<"\\", "\\">>
                   ELSE IF ch = q THEN <<"\\", q>>
                   ELSE IF ch = "\n" THEN <<"\\", "n">>
                   ELSE <<ch>>
        RECURSIVE Escaped(_)
        Escaped(t) == IF t = <<>> THEN <<>> ELSE esc(Head(t)) \o Escaped(Tail(t))
    IN  <<q>> \o Escaped(s) \o <<q>>

\* repr(v), and str(v), which differs from it for a str only
RECURSIVE PyRepr(_)
PyRepr(v) ==
    LET RECURSIVE Reprs(_)
        Reprs(items) ==
            IF items = <<>> THEN <<>> ELSE <<PyRepr(Head(items))>> \o Reprs(Tail(items))
    IN  CASE v.t = "NoneType" -> <<"N", "o", "n", "e">>
          [] v.t = "str" -> ReprText(v.s)
          [] v.t \in {"int", "bool"} -> v.s
          [] v.t = "list" -> <<"[">> \o Join(<<",", " ">>, Reprs(v.items)) \o <<"]">>
          [] v.t = "dict" -> <<"{">> \o Join(<<",", " ">>, Reprs(v.items)) \o <<"}">>
          [] v.t = "item" -> ReprText(v.s) \o <<":", " ">> \o PyRepr(v.items[1])

PyStr(v) == IF v.t = "str" THEN v.s ELSE PyRepr(v)

\* ------------------------------------------------------------------------
\* json.loads and json.dumps
\* ------------------------------------------------------------------------
Digits == {"0", "1", "2", "3", "4", "5", "6", "7", "8", "9"}

JsonFail == [ok |-> FALSE, v |-> PyNone, rest |-> <<>>]
JsonOk(v, rest) == [ok |-> TRUE, v |-> v, rest |-> rest]

\* The length of the run of digits s starts with
RECURSIVE DigitsLen(_)
DigitsLen(s) == IF s = <<>> \/ Head(s) \notin Digits THEN 0 ELSE 1 + DigitsLen(Tail(s))

\* A string, read from behind its opening quote; acc is what was read of it
RECURSIVE JsonString(_, _)
JsonString(s, acc) ==
    IF s = <<>> \/ Head(s) = "\n" THEN JsonFail
    ELSE IF Head(s) = "\"" THEN JsonOk(PyText(acc), Tail(s))
    ELSE IF Head(s) = "\\"
        THEN IF Len(s) < 2 THEN JsonFail
             ELSE IF s[2] \in {"\"", "\\", "/"}
                 THEN JsonString(SubSeq(s, 3, Len(s)), Append(acc, s[2]))
             ELSE IF s[2] = "n"
                 THEN JsonString(SubSeq(s, 3, Len(s)), Append(acc, "\n"))
             ELSE JsonFail
    ELSE JsonString(Tail(s), Append(acc, Head(s)))

RECURSIVE JsonValue(_)
RECURSIVE JsonElements(_, _)
RECURSIVE JsonMembers(_, _)

\* An array behind its element r: "," and the next element, or "]"
ElementsAfter(r, acc) ==
    LET t == LStripWs(r.rest)
    IN  IF ~r.ok \/ t = <<>> THEN JsonFail
        ELSE IF Head(t) = "," THEN JsonElements(Tail(t), Append(acc, r.v))
        ELSE IF Head(t) = "]" THEN JsonOk(PyList(Append(acc, r.v)), Tail(t))
        ELSE JsonFail

\* The elements of an array, read from behind "[" or ","
JsonElements(s, acc) == ElementsAfter(JsonValue(s), acc)

\* An object behind the value r of its member key: "," and the next
\* member, or "}"
MembersAfter(key, r, acc) ==
    LET t == LStripWs(r.rest)
    IN  IF ~key.ok \/ ~r.ok \/ t = <<>> THEN JsonFail
        ELSE IF Head(t) = ","
            THEN JsonMembers(Tail(t), Append(acc, PyItem(key.v.s, r.v)))
        ELSE IF Head(t) = "}"
            THEN JsonOk(PyDict(Append(acc, PyItem(key.v.s, r.v))), Tail(t))
        ELSE JsonFail

\* A member behind its key: ":" and the value
MemberValue(key, acc) ==
    LET c == LStripWs(key.rest)
    IN  MembersAfter(key,
                     IF c # <<>> /\ Head(c) = ":" THEN JsonValue(Tail(c)) ELSE JsonFail,
                     acc)

\* The members of an object, read from behind "{" or ","
JsonMembers(s, acc) ==
    LET k == LStripWs(s)
    IN  MemberValue(IF k # <<>> /\ Head(k) = "\"" THEN JsonString(Tail(k), <<>>)
                    ELSE JsonFail,
                    acc)

\* One JSON value at the start of s, which does not start with whitespace
ValueAt(s) ==
    LET t == IF s = <<>> THEN <<>> ELSE LStripWs(Tail(s))
        n == DigitsLen(s)
    IN  IF s = <<>> THEN JsonFail
        ELSE IF Head(s) = "\"" THEN JsonString(Tail(s), <<>>)
        ELSE IF Head(s) = "[" THEN
            IF t # <<>> /\ Head(t) = "]" THEN JsonOk(PyList(<<>>), Tail(t))
            ELSE JsonElements(Tail(s), <<>>)
        ELSE IF Head(s) = "{" THEN
            IF t # <<>> /\ Head(t) = "}" THEN JsonOk(PyDict(<<>>), Tail(t))
            ELSE JsonMembers(Tail(s), <<>>)
        ELSE IF StartsWith(s, <<"n", "u", "l", "l">>)
            THEN JsonOk(PyNone, SubSeq(s, 5, Len(s)))
        ELSE IF StartsWith(s, <<"t", "r", "u", "e">>)
            THEN JsonOk(PyBool(<<"T", "r", "u", "e">>), SubSeq(s, 5, Len(s)))
        ELSE IF StartsWith(s, <<"f", "a", "l", "s", "e">>)
            THEN JsonOk(PyBool(<<"F", "a", "l", "s", "e">>), SubSeq(s, 6, Len(s)))
        ELSE IF n > 0 /\ (n = 1 \/ Head(s) # "0")
            THEN JsonOk(PyInt(SubSeq(s, 1, n)), SubSeq(s, n + 1, Len(s)))
        ELSE JsonFail

\* One JSON value at the start of s
JsonValue(s) == ValueAt(LStripWs(s))

\* The value read, when only whitespace follows it
WholeText(r) == IF r.ok /\ LStripWs(r.rest) = <<>> THEN r ELSE JsonFail

\* json.loads(text): ok is FALSE where it raises JSONDecodeError
json_loads(text) == WholeText(JsonValue(text))

\* The text of a str between the quotes json.dumps writes
RECURSIVE JsonEscape(_)
JsonEscape(s) ==
    IF s = <<>> THEN <<>>
    ELSE (IF Head(s) \in {"\"", "\\"} THEN <<"\\", Head(s)>>
          ELSE IF Head(s) = "\n" THEN <<"\\", "n">>
          ELSE <<Head(s)>>) \o JsonEscape(Tail(s))

\* json.dumps(v, default=str)
RECURSIVE json_dumps(_)
json_dumps(v) ==
    LET RECURSIVE Dumps(_)
        Dumps(items) ==
            IF items = <<>> THEN <<>> ELSE <<json_dumps(Head(items))>> \o Dumps(Tail(items))
    IN  CASE v.t = "NoneType" -> <<"n", "u", "l", "l">>
          [] v.t = "str" -> <<"\"">> \o JsonEscape(v.s) \o <<"\"">>
          [] v.t = "int" -> v.s
          [] v.t = "bool" -> Lower(v.s)
          [] v.t = "list" -> <<"[">> \o Join(<<",", " ">>, Dumps(v.items)) \o <<"]">>
          [] v.t = "dict" -> <<"{">> \o Join(<<",", " ">>, Dumps(v.items)) \o <<"}">>
          [] v.t = "item" ->
                <<"\"">> \o JsonEscape(v.s) \o <<"\"">> \o <<":", " ">>
                    \o json_dumps(v.items[1])

\* ------------------------------------------------------------------------
\* The cells of the table export
\* ------------------------------------------------------------------------
\* What a block of code comes to: the text it returns, or an exception
Returned(text) == [raised |-> FALSE, text |-> text]
Raised == [raised |-> TRUE, text |-> <<>>]

\* (mutant) the try block has no except clause
ExceptNothing(r, fallback) == r

\* try: r / except: fallback
Except(r, fallback) == IF r.raised THEN Returned(fallback) ELSE r

\* The texts of a list of str values
Texts(items) == [i \in 1..Len(items) |-> items[i].s]

\* [str(v) for v in items]
Strs(items) == [i \in 1..Len(items) |-> PyText(PyStr(items[i]))]

\* sep.join(items): TypeError when an item is not a str
JoinValues(sep, items) ==
    IF \E i \in 1..Len(items) : items[i].t # "str" THEN Raised
    ELSE Returned(Join(sep, Texts(items)))

\* text[:max_length-3] + "..." where text is longer than max_length
Truncated(text, max_length) ==
    IF Len(text) > max_length
    THEN SubSeq(text, 1, max_length - 3) \o <<".", ".", ".">>
    ELSE text

format_cell(text, max_length) ==
    IF ~PyTruthy(text) THEN <<>>
    ELSE Truncated(Join(<<" ">>, SplitWs(PyStrip(PyStr(text)))), max_length)

\* The part of the stripped text that extract_company_name keeps
CompanyPart(text) ==
    IF In(<<" ", "a", "t", " ">>, text)
        THEN PyStrip(Split(Split(text, <<" ", "a", "t", " ">>)[2], <<" ", "(">>)[1])
    ELSE IF In(<<"|">>, text) THEN PyStrip(Split(text, <<"|">>)[1])
    ELSE IF In(<<"(">>, text) THEN PyStrip(Split(text, <<"(">>)[1])
    ELSE text

extract_company_name(company_text) ==
    IF ~PyTruthy(company_text) THEN <<>>
    ELSE format_cell(PyText(CompanyPart(PyStrip(PyStr(company_text)))), 40)

\* json.loads(value) if isinstance(value, str) else value
LoadIfStr(value) == IF value.t = "str" THEN json_loads(value.s) ELSE JsonOk(value, <<>>)

\* What a skills list shows of its element s
SkillLabel(s) ==
    IF s.t = "dict"
    THEN DictGet(s, <<"t", "i", "t", "l", "e">>,
         DictGet(s, <<"n", "a", "m", "e">>,
         DictGet(s, <<"s", "k", "i", "l", "l">>, s)))
    ELSE s

\* The skills cell made of what json.loads came to
SkillsOf(loaded) ==
    IF ~loaded.ok THEN Raised
    ELSE IF loaded.v.t = "list"
        THEN JoinValues(<<",", " ">>,
                Strs([i \in 1..Len(loaded.v.items) |-> SkillLabel(loaded.v.items[i])]))
    ELSE Returned(PyStr(loaded.v))

\* The try block of the skills cell
SkillsTry(skills_text) == SkillsOf(LoadIfStr(skills_text))

\* format_cell(cell, max_length) of the text a block returned
FormatReturned(r, max_length) ==
    IF r.raised THEN Raised ELSE Returned(format_cell(PyText(r.text), max_length))

\* row.get(column, '') or ''
OrEmpty(value) == PyOrVal(value, PyText(<<>>))

\* The skills cell of a row, before the pipes are escaped
skills_cell(value) ==
    FormatReturned(
        IF PyTruthy(OrEmpty(value))
        THEN Except(SkillsTry(OrEmpty(value)), PyStr(OrEmpty(value)))
        ELSE Returned(<<>>),
        40)

\* [k.strip() for k in keywords_text.split(',') if k.strip()]
CommaTokens(s) ==
    LET parts == Split(s, <<",">>)
    IN  SelectSeq([i \in 1..Len(parts) |-> PyText(PyStrip(parts[i]))], PyTruthy)

\* (mutant) every keyword is kept
KeepEveryKeyword(k) == TRUE

\* k and str(k).strip().lower() != 'null'
KeepKeyword(k) ==
    PyTruthy(k) /\ Lower(PyStrip(PyStr(k))) # <<"n", "u", "l", "l">>

\* The keywords cell made of kw_data
KeywordsOf(loaded) ==
    IF ~loaded.ok THEN Raised
    ELSE IF loaded.v.t = "list"
        THEN JoinValues(<<" ", "|", " ">>, Strs(SelectSeq(loaded.v.items, KeepKeyword)))
    ELSE Returned(PyStr(loaded.v))

\* The try block of the keywords cell
KeywordsTry(keywords_text) ==
    KeywordsOf(IF keywords_text.t # "str" THEN JsonOk(keywords_text, <<>>)
               ELSE IF StartsWith(PyStrip(keywords_text.s), <<"[">>)
                   THEN json_loads(keywords_text.s)
               ELSE JsonOk(PyList(CommaTokens(keywords_text.s)), <<>>))

\* The keywords cell of a row, before the pipes are escaped
keywords_cell(value) ==
    FormatReturned(
        IF PyTruthy(OrEmpty(value))
        THEN Except(KeywordsTry(OrEmpty(value)), PyStr(OrEmpty(value)))
        ELSE Returned(<<>>),
        40)

\* f"{title} at {company}", and f" ({period})" where there is a period
ExperienceLine(title, company, period) ==
    PyStr(title) \o <<" ", "a", "t", " ">> \o PyStr(company)
        \o (IF PyTruthy(period) THEN <<" ", "(">> \o PyStr(period) \o <<")">> ELSE <<>>)

\* What format_experiences_for_table appends for an experience with these
\* values (None: nothing)
ExperienceOf(title, company, period) ==
    IF PyTruthy(title) /\ PyTruthy(company)
        THEN PyText(ExperienceLine(title, company, period))
    ELSE IF PyTruthy(title) THEN title
    ELSE PyNone

\* ... for the element exp of the list
ExperienceText(exp) ==
    IF exp.t # "dict" THEN PyNone
    ELSE ExperienceOf(
            DictGet(exp, <<"t", "i", "t", "l", "e">>, PyText(<<>>)),
            PyOrVal(DictGet(exp, <<"n", "a", "m", "e">>, PyNone),
                    DictGet(exp, <<"c", "o", "m", "p", "a", "n", "y">>, PyText(<<>>))),
            DictGet(exp, <<"p", "e", "r", "i", "o", "d">>, PyText(<<>>)))

\* exp_data[:2]
FirstTwo(items) == SubSeq(items, 1, Min(2, Len(items)))

\* The text made of what json.loads came to
ExperiencesOf(loaded) ==
    IF ~loaded.ok THEN Raised
    ELSE IF loaded.v.t = "list"
        THEN JoinValues(<<" ", "|", " ">>,
                SelectSeq([i \in 1..Len(FirstTwo(loaded.v.items)) |->
                              ExperienceText(loaded.v.items[i])],
                          LAMBDA e : e # PyNone))
    ELSE Returned(PyStr(loaded.v))

\* The try block of format_experiences_for_table
ExperiencesTry(experiences) == ExperiencesOf(LoadIfStr(experiences))

format_experiences_for_table(experiences) ==
    IF ~PyTruthy(experiences) THEN Returned(<<>>)
    ELSE Except(ExperiencesTry(experiences),
                format_cell(PyText(PyStr(experiences)), 50))

\* cell.replace('|', '\\|')
EscapePipes(cell) == Replace(cell, "|", <<"\\", "|">>)

\* The first four cells of a row of the table
PlainCells(row) ==
    <<format_cell(OrEmpty(row.full_name), 25),
      format_cell(OrEmpty(row.email), 30),
      format_cell(OrEmpty(row.linkedin_url), 35),
      format_cell(PyText(extract_company_name(
            PyOrVal(row.current_company, row.current_company_detail))), 30)>>

\* f"| {full_name} | {email} | {linkedin_url} | {company} | {skills} | {keywords} |"
\* of the cells with their pipes escaped
TableLine(cells) ==
    <<"|", " ">>
        \o Join(<<" ", "|", " ">>, [i \in 1..Len(cells) |-> EscapePipes(cells[i])])
        \o <<" ", "|">>

\* The line of the row with these skills and keywords cells, or the
\* exception that one of them raised
LineOf(cells, skills, keywords) ==
    IF skills.raised \/ keywords.raised THEN Raised
    ELSE Returned(TableLine(cells \o <<skills.text, keywords.text>>))

\* The body of the loop of export_network_table for one row
TableRow(row) ==
    LineOf(PlainCells(row), skills_cell(row.skills), keywords_cell(row.keywords))

\* ------------------------------------------------------------------------
\* The rows of the CSV export
\* ------------------------------------------------------------------------
\* The columns of the CSV file that the rows of the model have
fieldnames ==
    <<"full_name", "email", "linkedin_url", "current_company",
      "current_company_detail", "experiences", "skills", "education", "keywords">>

ListFields == {"experiences", "skills", "education", "keywords"}

\* row[field] as export_network_csv sets it
CsvValue(value, field) ==
    IF field \in ListFields
    THEN IF PyTruthy(value) THEN PyText(json_dumps(value)) ELSE PyText(<<>>)
    ELSE IF value # PyNone THEN value ELSE PyText(<<>>)

\* A field as csv.writer writes it (excel dialect, QUOTE_MINIMAL)
CsvField(s) ==
    IF \E i \in 1..Len(s) : s[i] \in {",", "\"", "\n", "\r"}
    THEN <<"\"">> \o Replace(s, "\"", <<"\"", "\"">>) \o <<"\"">>
    ELSE s

\* writer.writerow(row)
CsvLine(record) ==
    Join(<<",">>, [i \in 1..Len(fieldnames) |->
                      CsvField(PyStr(CsvValue(record[fieldnames[i]], fieldnames[i])))])
        \o <<"\r", "\n">>

\* ------------------------------------------------------------------------
\* Stored rows that the exports format
\* ------------------------------------------------------------------------
Ai == <<"a", "i">>
Founder == <<"f", "o", "u", "n", "d", "e", "r">>
Quoted(s) == <<"\"">> \o s \o <<"\"">>

\* '["ai","founder",""," null "]'
JsonTokens ==
    <<"[">> \o Quoted(Ai) \o <<",">> \o Quoted(Founder) \o <<",">> \o Quoted(<<>>)
        \o <<",">> \o Quoted(<<" ", "n", "u", "l", "l", " ">>) \o <<"]">>

\* 'ai, founder, , null'
DelimitedTokens ==
    Ai \o <<",", " ">> \o Founder \o <<",", " ", ",", " ", "n", "u", "l", "l">>

\* '[{"title":"cto"},{"name":"x"}]'
JsonObjects ==
    <<"[", "{">> \o Quoted(<<"t", "i", "t", "l", "e">>) \o <<":">>
        \o Quoted(<<"c", "t", "o">>) \o <<"}", ",", "{">>
        \o Quoted(<<"n", "a", "m", "e">>) \o <<":">> \o Quoted(<<"x">>) \o <<"}", "]">>

\* '{"name":"x"}'
JsonObject == <<"{">> \o Quoted(<<"n", "a", "m", "e">>) \o <<":">> \o Quoted(<<"x">>) \o <<"}">>

\* A text longer than every cell
LongText == [i \in 1..41 |-> "a"]

\* What a list-valued column holds: NULL, text (JSON or not), or a list the
\* driver has already decoded
StoredValues == {
    PyNone,
    PyText(<<>>),
    PyText(JsonTokens),
    PyText(DelimitedTokens),
    PyText(JsonObjects),
    PyText(JsonObject),
    PyText(<<"[">> \o Quoted(Ai)),
    PyText(<<"[">> \o Quoted(Ai) \o <<",", "n", "u", "l", "l", ",", "1", "]">>),
    PyText(<<"[">> \o Quoted(<<" ", " ">>) \o <<",">> \o Quoted(Ai) \o <<"]">>),
    PyText(<<"N", "U", "L", "L", ",", "a", "|", "b">>),
    PyText(LongText),
    PyList(<<PyText(Ai), PyText(<<"v", "c">>)>>) }

\* '[{"title":"cto","name":"acme","period":"2020"},{"title":"vp"}]'
JsonExperiences ==
    <<"[", "{">> \o Quoted(<<"t", "i", "t", "l", "e">>) \o <<":">>
        \o Quoted(<<"c", "t", "o">>) \o <<",">>
        \o Quoted(<<"n", "a", "m", "e">>) \o <<":">> \o Quoted(<<"a", "c", "m", "e">>)
        \o <<",">> \o Quoted(<<"p", "e", "r", "i", "o", "d">>) \o <<":">>
        \o Quoted(<<"2", "0", "2", "0">>) \o <<"}", ",", "{">>
        \o Quoted(<<"t", "i", "t", "l", "e">>) \o <<":">> \o Quoted(<<"v", "p">>)
        \o <<"}", "]">>

\* What the experiences column holds ('[{"title":1}]' has a title that is
\* not text)
StoredExperiences == {
    PyNone,
    PyText(JsonExperiences),
    PyText(<<"[", "{">> \o Quoted(<<"t", "i", "t", "l", "e">>) \o <<":", "1", "}", "]">>),
    PyText(<<"c", "t", "o", " ", "a", "t", " ", "x">>),
    PyText(JsonObject) }

NoRow ==
    [full_name |-> PyNone, email |-> PyNone, linkedin_url |-> PyNone,
     current_company |-> PyNone, current_company_detail |-> PyNone,
     experiences |-> PyNone, skills |-> PyNone, education |-> PyNone,
     keywords |-> PyNone]

\* The other columns of the stored rows
Contacts == {
    [NoRow EXCEPT !.full_name = PyText(<<"a", "b">>),
                  !.email = PyText(<<"a", "@", "b">>),
                  !.current_company =
                      PyText(<<"c", "t", "o", " ", "a", "t", " ", "x", " ", "(", "n", "y", ")">>)],
    [NoRow EXCEPT !.full_name = PyText(<<"a", "|", "b">>),
                  !.current_company = PyText(<<"x", "|", "y">>),
                  !.education = PyText(<<"[">> \o Quoted(<<"m", "i", "t">>) \o <<"]">>)],
    [NoRow EXCEPT !.full_name = PyText(<<"a", "\\", "|", "b">>),
                  !.current_company_detail = PyText(<<"x", " ", "(", "n", "y", ")">>)],
    [NoRow EXCEPT !.full_name = PyText(<<" ", "a", "\n", " ", "b", ",", "\"", "c", "\"">>),
                  !.linkedin_url = PyText(LongText),
                  !.current_company = PyText(<<"x">>)] }

StoredRows ==
    {[c EXCEPT !.experiences = e, !.skills = s, !.keywords = k] :
        c \in Contacts, e \in StoredExperiences, s \in StoredValues, k \in StoredValues}

\* No row is being formatted
NoPerson ==
    [pc |-> "none", row |-> NoRow, skills |-> Returned(<<>>),
     keywords |-> Returned(<<>>), table |-> Returned(<<>>),
     experiences |-> Returned(<<>>), csv |-> <<>>]

\* A file that does not exist
NoFile == [exists |-> FALSE, rows |-> <<>>]

\* No script runs; data/network.csv and out.csv do not exist
NoScript ==
    [pc |-> "idle", program |-> "", api_key |-> None, output_path |-> "",
     status |-> "", rc |-> 0, stdout |-> <<>>, data_csv |-> NoFile,
     out_csv |-> NoFile]

\* ------------------------------------------------------------------------
\* Actions
\* ------------------------------------------------------------------------
Init ==
    /\ os_environ \in EnvValues
    /\ API_KEY = os_environ
    /\ db_pool = 0
    /\ pools_created = 0
    /\ borrowed = [p \in PoolIds |-> 0]
    /\ current_api_key = [c \in Calls |-> None]
    /\ call = [c \in Calls |-> Idle]
    /\ file = NoFile
    /\ person = NoPerson
    /\ script = NoScript

\* A request arrives: the middleware sets the ContextVar and calls the app
MiddlewareCall(c, headerSets, inputs) ==
    /\ call[c].pc = "idle"
    /\ \E h \in headerSets, in \in inputs :
         /\ current_api_key' = ContextSet(current_api_key, c, HeaderKey(h))
         /\ call' = [call EXCEPT ![c] =
                [Idle EXCEPT !.pc = "app", !.scope = "http", !.headers = h,
                             !.input = in, !.token = current_api_key[c]]]
    /\ UNCHANGED <<os_environ, API_KEY, db_pool, pools_created, borrowed, file>>

\* A scope that is neither http nor websocket: the app runs, nothing is set
MiddlewarePassThrough(c) ==
    /\ call[c].pc = "idle"
    /\ call' = [call EXCEPT ![c] = [Idle EXCEPT !.pc = "done", !.scope = "lifespan"]]
    /\ UNCHANGED <<os_environ, API_KEY, db_pool, pools_created, borrowed,
                   current_api_key, file>>

\* The tool starts: get_user_id, then get_db up to its await
ToolStart(c) ==
    /\ call[c].pc = "app"
    /\ LET user_id == get_user_id(current_api_key[c], os_environ, API_KEY)
       IN  IF user_id = None
           THEN call' = [call EXCEPT ![c].pc = "exit",
                            ![c].out = OnException(call[c].input.op, "API_KEY not set")]
           ELSE IF db_pool = 0
           THEN call' = [call EXCEPT ![c].pc = "create_pool", ![c].user_id = user_id]
           ELSE call' = [call EXCEPT ![c].pc = "acquire", ![c].user_id = user_id,
                                     ![c].pool = db_pool]
    /\ UNCHANGED <<os_environ, API_KEY, db_pool, pools_created, borrowed,
                   current_api_key, file>>

\* asyncpg.create_pool returns: db_pool is assigned and returned
CreatePoolReturns(c) ==
    /\ call[c].pc = "create_pool"
    /\ pools_created' = pools_created + 1
    /\ db_pool' = pools_created + 1
    /\ call' = [call EXCEPT ![c].pc = "acquire", ![c].pool = pools_created + 1]
    /\ UNCHANGED <<os_environ, API_KEY, borrowed, current_api_key, file>>

\* asyncpg.create_pool raises (the database cannot be reached)
CreatePoolRaises(c) ==
    /\ call[c].pc = "create_pool"
    /\ call' = [call EXCEPT ![c].pc = "exit",
                   ![c].out = OnException(call[c].input.op, "cannot connect")]
    /\ UNCHANGED <<os_environ, API_KEY, db_pool, pools_created, borrowed,
                   current_api_key, file>>

\* async with pool.acquire() as conn: waits while the pool has none free
Acquire(c) ==
    /\ call[c].pc = "acquire"
    /\ borrowed[call[c].pool] < MaxPoolSize
    /\ borrowed' = [borrowed EXCEPT ![call[c].pool] = @ + 1]
    /\ call' = [call EXCEPT ![c].pc = "fetch"]
    /\ UNCHANGED <<os_environ, API_KEY, db_pool, pools_created,
                   current_api_key, file>>

\* The queries run and the tool builds its payload (and, for
\* export_network_csv, writes the file)
FetchReturns(c) ==
    /\ call[c].pc = "fetch"
    /\ \E o \in ToolOutcomes(call[c].user_id, call[c].input),
          n \in QueriesOnReturn(call[c].input.op) :
         /\ call' = [call EXCEPT ![c].pc = "release", ![c].out = o,
                                 ![c].queries = n]
         /\ file' = IF call[c].input.op = "export_network_csv"
                    THEN FileAfter(file, call[c].user_id, o) ELSE file
    /\ UNCHANGED <<os_environ, API_KEY, db_pool, pools_created, borrowed,
                   current_api_key>>

\* A query fails in the database layer
FetchRaises(c) ==
    /\ call[c].pc = "fetch"
    /\ \E n \in QueriesOnRaise(call[c].input.op) :
         call' = [call EXCEPT ![c].pc = "release", ![c].queries = n,
                     ![c].out = OnException(call[c].input.op, "query failed")]
    /\ UNCHANGED <<os_environ, API_KEY, db_pool, pools_created, borrowed,
                   current_api_key, file>>

\* The async with block is left: the connection goes back to its pool
Release(c) ==
    /\ call[c].pc = "release"
    /\ borrowed' = ReleaseConnection(borrowed, call[c].pool, call[c].out.kind)
    /\ call' = [call EXCEPT ![c].pc = "exit"]
    /\ UNCHANGED <<os_environ, API_KEY, db_pool, pools_created,
                   current_api_key, file>>

\* The app returns or raises to the middleware: finally resets the ContextVar
MiddlewareReturn(c) ==
    /\ call[c].pc = "exit" /\ call[c].scope = "http"
    /\ current_api_key' =
           ContextReset(current_api_key, c, call[c].token, call[c].out.kind)
    /\ call' = [call EXCEPT ![c].pc = "done"]
    /\ UNCHANGED <<os_environ, API_KEY, db_pool, pools_created, borrowed, file>>

\* A finished call leaves its slot to the next request
Recycle(c) ==
    /\ call[c].pc = "done"
    /\ call' = [call EXCEPT ![c] = Idle]
    /\ UNCHANGED <<os_environ, API_KEY, db_pool, pools_created, borrowed,
                   current_api_key, file>>

\* Calls in flight at the same time, interleaved at their awaits
Next ==
    \E c \in Calls :
        /\ UNCHANGED <<person, script>>
        /\ \/ MiddlewareCall(c, ConcurrentHeaders, ConcurrentInputs)
           \/ MiddlewarePassThrough(c)
           \/ ToolStart(c)
           \/ CreatePoolReturns(c)
           \/ CreatePoolRaises(c)
           \/ Acquire(c)
           \/ FetchReturns(c)
           \/ FetchRaises(c)
           \/ Release(c)
           \/ MiddlewareReturn(c)

Spec == Init /\ [][Next]_vars

\* One call after the other, with every input
NextSeq ==
    \E c \in Calls :
        /\ \A d \in Calls \ {c} : call[d].pc = "idle"
        /\ UNCHANGED <<person, script>>
        /\ \/ MiddlewareCall(c, HeaderSets, ToolInputs)
           \/ MiddlewarePassThrough(c)
           \/ ToolStart(c)
           \/ CreatePoolReturns(c)
           \/ CreatePoolRaises(c)
           \/ Acquire(c)
           \/ FetchReturns(c)
           \/ FetchRaises(c)
           \/ Release(c)
           \/ MiddlewareReturn(c)
           \/ Recycle(c)

SpecSeq == Init /\ [][NextSeq]_vars

\* ------------------------------------------------------------------------
\* The exports' formatting of one stored row
\* ------------------------------------------------------------------------
ServerUnchanged ==
    UNCHANGED <<os_environ, API_KEY, db_pool, pools_created, borrowed,
                current_api_key, call, file>>

\* A row that the query of an export returned
InitFormat ==
    /\ os_environ = None
    /\ API_KEY = os_environ
    /\ db_pool = 0
    /\ pools_created = 0
    /\ borrowed = [p \in PoolIds |-> 0]
    /\ current_api_key = [c \in Calls |-> None]
    /\ call = [c \in Calls |-> Idle]
    /\ file = NoFile
    /\ person \in {[NoPerson EXCEPT !.pc = "row", !.row = r] : r \in StoredRows}
    /\ script = NoScript

\* export_network_table formats the row as a line of the table
FormatTableRow ==
    /\ person.pc = "row"
    /\ person' = [person EXCEPT !.pc = "table",
                                !.skills = skills_cell(person.row.skills),
                                !.keywords = keywords_cell(person.row.keywords),
                                !.table = TableRow(person.row)]
    /\ ServerUnchanged /\ UNCHANGED script

\* format_experiences_for_table formats the experiences of the row
FormatExperiences ==
    /\ person.pc = "table"
    /\ person' = [person EXCEPT !.pc = "experiences",
                     !.experiences = format_experiences_for_table(person.row.experiences)]
    /\ ServerUnchanged /\ UNCHANGED script

\* export_network_csv writes the row as a line of the CSV file
WriteCsvRow ==
    /\ person.pc = "experiences"
    /\ person' = [person EXCEPT !.pc = "csv", !.csv = CsvLine(person.row)]
    /\ ServerUnchanged /\ UNCHANGED script

NextFormat ==
    \/ FormatTableRow
    \/ FormatExperiences
    \/ WriteCsvRow

SpecFormat == InitFormat /\ [][NextFormat]_vars

\* ------------------------------------------------------------------------
\* The command-line scripts: export_csv.py, simple_export.py, test_mcp.py.
\* Each run is a process of its own with its own environment; the runs
\* share the working directory.  DATABASE_URL is set in every run.
\* ------------------------------------------------------------------------
Programs == {"export_csv.py", "simple_export.py", "test_mcp.py"}

\* --output of export_csv.py
OutputPaths == {"linkedin_network_export.csv", "data/network.csv", "out.csv"}

\* API_KEY in the environment of a run
ScriptEnvValues == {None, K0, K1, K2}

\* What the database does during a run
DatabaseAnswers == {"ok", "cannot connect", "query failed"}

\* shutil.copy2 copies or raises
CopyResults == {"copied", "raises"}

\* The file at a path of the working directory
FileAt(path, exported, s) ==
    CASE path = "linkedin_network_export.csv" -> exported
      [] path = "data/network.csv" -> s.data_csv
      [] OTHER -> s.out_csv

\* A file that holds the rows of a tenant, in the order of the query
FileOf(user_id) == [exists |-> TRUE, rows |-> OrderByName(TenantRows(user_id))]

\* The cells of a CSV file: the selected columns of its rows (user_id is
\* not among the columns of either export)
ArtifactCells(f) ==
    UNION {{People[r].full_name, People[r].current_company, People[r].keywords} :
              r \in Range(f.rows)}

\* await export_network_csv() in the process of export_csv.py: the payloads
\* it may return (the ContextVar has its default, the id is the environment's)
ExportPayloads(api_key) ==
    IF get_user_id(None, api_key, api_key) = None
    THEN {OnException("export_network_csv", "API_KEY not set")}
    ELSE {OnException("export_network_csv", "cannot connect"),
          OnException("export_network_csv", "query failed")}
         \cup export_network_csv(get_user_id(None, api_key, api_key))

\* run_export after the payload o: the return code, what it printed, and
\* whether it copied data/network.csv to output_path
run_export(output_path, o, src_is_file, copy) ==
    IF o.status # "success"
    THEN [rc |-> 2, stdout |-> << <<"Export failed: ", o.message>> >>,
          copied |-> FALSE]
    ELSE IF ~src_is_file
    THEN [rc |-> 3,
          stdout |-> << <<"Export succeeded but file not found at: ",
                          "data/network.csv">> >>,
          copied |-> FALSE]
    ELSE IF output_path # "data/network.csv" /\ copy = "raises"
    THEN [rc |-> 1, stdout |-> << <<"Unexpected error: ", "copy2">> >>,
          copied |-> FALSE]
    ELSE [rc |-> 0, stdout |-> << <<"Saved CSV to: ", output_path>> >>,
          copied |-> output_path # "data/network.csv"]

\* simple_export.py, export_csv(): the return code, what it printed, and
\* data/network.csv afterwards
export_csv(api_key, db, data_csv) ==
    IF ~Truthy(api_key)
    THEN [rc |-> 1, stdout |-> << <<"Error: API_KEY not set">> >>,
          data_csv |-> data_csv]
    ELSE IF db # "ok"
    THEN [rc |-> 1, stdout |-> << <<"Error: ", db>> >>, data_csv |-> data_csv]
    ELSE IF TenantRows(api_key) = {}
    THEN [rc |-> 1,
          stdout |-> << <<"No contacts found in your LinkedIn network.">> >>,
          data_csv |-> data_csv]
    ELSE [rc |-> 0,
          stdout |-> << <<"Export completed!">>,
                        <<"File saved to: ", "data/network.csv">>,
                        <<"Total Contacts: ">>, <<"File Size: ">> >>,
          data_csv |-> FileOf(api_key)]

\* API_KEY[:20]
First20(api_key) == SubSeq(api_key, 1, Min(20, Len(api_key)))

\* print(f"Checking user_id: {API_KEY}")
CheckingLine(api_key) == <<"Checking user_id: ">> \o api_key

\* test_mcp.py, __main__ and test_connection(): the return code and what
\* it printed
test_connection(api_key, db) ==
    IF ~Truthy(api_key)
    THEN [rc |-> 1, stdout |-> << <<"API_KEY not set!">> >>]
    ELSE LET checked == << <<"Testing MCP Server Configuration...">>,
                           <<"DATABASE_URL is set">>,
                           <<"API_KEY is set: ">> \o First20(api_key) \o <<"...">>,
                           <<"Testing database connection...">> >>
         IN  IF db = "cannot connect"
             THEN [rc |-> 1, stdout |-> checked \o << <<"Error: ", db>> >>]
             ELSE IF db = "query failed"
             THEN [rc |-> 1,
                   stdout |-> checked \o << <<"Connected to database">>,
                                            CheckingLine(api_key),
                                            <<"Error: ", db>> >>]
             ELSE IF TenantRows(api_key) # {}
             THEN [rc |-> 0,
                   stdout |-> checked \o << <<"Connected to database">>,
                                            CheckingLine(api_key),
                                            <<"User has connections in database">>,
                                            <<"All tests passed!">> >>]
             ELSE [rc |-> 1,
                   stdout |-> checked \o << <<"Connected to database">>,
                                            CheckingLine(api_key),
                                            <<"No data found for user_id: ">> \o api_key >>]

\* The server's own state, which no script touches (file is the server's
\* export in the working directory, which export_csv.py writes)
ScriptUnchanged ==
    UNCHANGED <<os_environ, API_KEY, db_pool, pools_created, borrowed,
                current_api_key, call, person>>

\* No server runs; the working directory holds no CSV file
InitScripts ==
    /\ os_environ = None
    /\ API_KEY = os_environ
    /\ db_pool = 0
    /\ pools_created = 0
    /\ borrowed = [p \in PoolIds |-> 0]
    /\ current_api_key = [c \in Calls |-> None]
    /\ call = [c \in Calls |-> Idle]
    /\ file = NoFile
    /\ person = NoPerson
    /\ script = NoScript

\* A script is started from the shell
ScriptStart ==
    /\ script.pc = "idle"
    /\ \E p \in Programs, k \in ScriptEnvValues, path \in OutputPaths :
         /\ p # "export_csv.py" => path = "linkedin_network_export.csv"
         /\ script' = [NoScript EXCEPT !.pc = "main", !.program = p,
                                       !.api_key = k, !.output_path = path,
                                       !.data_csv = script.data_csv,
                                       !.out_csv = script.out_csv]
    /\ file' = file
    /\ ScriptUnchanged

\* export_csv.py: main() runs run_export(args.output)
RunExport ==
    /\ script.pc = "main" /\ script.program = "export_csv.py"
    /\ \E o \in ExportPayloads(script.api_key), copy \in CopyResults :
         /\ script' =
              [script EXCEPT
                 !.pc = "exit", !.status = o.status,
                 !.rc = run_export(script.output_path, o,
                                   script.data_csv.exists, copy).rc,
                 !.stdout = run_export(script.output_path, o,
                                       script.data_csv.exists, copy).stdout,
                 !.out_csv =
                     IF /\ script.output_path = "out.csv"
                        /\ run_export(script.output_path, o,
                                      script.data_csv.exists, copy).copied
                     THEN script.data_csv ELSE @]
         /\ file' =
              IF /\ script.output_path = "linkedin_network_export.csv"
                 /\ run_export(script.output_path, o,
                               script.data_csv.exists, copy).copied
              THEN script.data_csv
              ELSE FileAfter(file, script.api_key, o)
    /\ ScriptUnchanged

\* simple_export.py: export_csv()
SimpleExport ==
    /\ script.pc = "main" /\ script.program = "simple_export.py"
    /\ \E db \in DatabaseAnswers :
         script' = [script EXCEPT
                       !.pc = "exit",
                       !.rc = export_csv(script.api_key, db, script.data_csv).rc,
                       !.stdout = export_csv(script.api_key, db, script.data_csv).stdout,
                       !.data_csv = export_csv(script.api_key, db, script.data_csv).data_csv]
    /\ file' = file
    /\ ScriptUnchanged

\* test_mcp.py: test_connection()
TestConnection ==
    /\ script.pc = "main" /\ script.program = "test_mcp.py"
    /\ \E db \in DatabaseAnswers :
         script' = [script EXCEPT
                       !.pc = "exit",
                       !.rc = test_connection(script.api_key, db).rc,
                       !.stdout = test_connection(script.api_key, db).stdout]
    /\ file' = file
    /\ ScriptUnchanged

\* The process ends; its files stay
ScriptExit ==
    /\ script.pc = "exit"
    /\ script' = [NoScript EXCEPT !.data_csv = script.data_csv,
                                  !.out_csv = script.out_csv]
    /\ file' = file
    /\ ScriptUnchanged

NextScripts ==
    \/ ScriptStart
    \/ RunExport
    \/ SimpleExport
    \/ TestConnection
    \/ ScriptExit

SpecScripts == InitScripts /\ [][NextScripts]_vars

\* ------------------------------------------------------------------------
\* GET /download/csv.  The route is on fastapi_root, outside the
\* HeaderToContextMiddleware that wraps the mounted MCP app, so the
\* ContextVar has its default when the handler runs.
\* ------------------------------------------------------------------------
ExportInputs == {[NoInput EXCEPT !.op = "export_network_csv"]}

\* FileResponse(filepath): the rows of the file in the working directory
FileResponse(f) ==
    [NoOutcome EXCEPT !.kind = "return", !.form = "file", !.rows = Range(f.rows)]

\* Response(content=json.dumps({"error": ...}), status_code=500)
ErrorResponse(text) ==
    [NoOutcome EXCEPT !.kind = "return", !.form = "json_object",
                      !.keys = {"error"}, !.status = "500", !.message = text]

\* download_csv up to its first await of the database: get_user_id, then
\* the file if it exists, else export_network_csv()
download_csv(user_id, f) ==
    IF user_id = None
    THEN [Idle EXCEPT !.pc = "done", !.scope = "download",
                      !.out = ErrorResponse("API_KEY not set")]
    ELSE IF f.exists
    THEN [Idle EXCEPT !.pc = "done", !.scope = "download", !.user_id = user_id,
                      !.out = FileResponse(f)]
    ELSE [Idle EXCEPT !.pc = "app", !.scope = "download",
                      !.input = [NoInput EXCEPT !.op = "export_network_csv"]]

\* A GET /download/csv request arrives
DownloadCall(c) ==
    /\ call[c].pc = "idle"
    /\ call' = [call EXCEPT ![c] =
           download_csv(get_user_id(current_api_key[c], os_environ, API_KEY), file)]
    /\ UNCHANGED <<os_environ, API_KEY, db_pool, pools_created, borrowed,
                   current_api_key, file>>

\* export_network_csv() returned to download_csv: the file it wrote is
\* served, or the 500 response when its status is not success
DownloadReturn(c) ==
    /\ call[c].pc = "exit" /\ call[c].scope = "download"
    /\ call' = [call EXCEPT ![c].pc = "done",
                   ![c].out = IF call[c].out.status = "success"
                              THEN FileResponse(file)
                              ELSE ErrorResponse("Failed to generate CSV")]
    /\ UNCHANGED <<os_environ, API_KEY, db_pool, pools_created, borrowed,
                   current_api_key, file>>

\* Exports through the MCP app and downloads, one request after the other
NextDownload ==
    \E c \in Calls :
        /\ \A d \in Calls \ {c} : call[d].pc = "idle"
        /\ UNCHANGED <<person, script>>
        /\ \/ MiddlewareCall(c, HeaderSets, ExportInputs)
           \/ DownloadCall(c)
           \/ ToolStart(c)
           \/ CreatePoolReturns(c)
           \/ CreatePoolRaises(c)
           \/ Acquire(c)
           \/ FetchReturns(c)
           \/ FetchRaises(c)
           \/ Release(c)
           \/ MiddlewareReturn(c)
           \/ DownloadReturn(c)
           \/ Recycle(c)

SpecDownload == Init /\ [][NextDownload]_vars

\* ------------------------------------------------------------------------
\* Claims
\* ------------------------------------------------------------------------
\* The credential the middleware takes from call c's own headers
Credential(c) == HeaderKey(call[c].headers)

\* Between the middleware's set and its reset
InFlight(c) ==
    call[c].pc \in {"app", "create_pool", "acquire", "fetch", "release", "exit"}

\* The tool's queries have run (or failed)
Fetched(c) == call[c].pc \in {"release", "exit", "done"} /\ call[c].queries > 0

\* The outcome is that of a failure of the database layer
DatabaseFailure(c) ==
    call[c].out \in {OnException(call[c].input.op, text) :
                        text \in {"query failed", "cannot connect", "syntax error"}}

\* Lemma for C1: in every interleaving the id a call resolved is the
\* credential of its own headers.
ResolvedIdIsOwnCredential ==
    \A c \in Calls :
        (InFlight(c) /\ Truthy(Credential(c)) /\ call[c].user_id # None)
            => call[c].user_id = Credential(c)

\* C1: of calls in flight together with distinct credentials in their
\* headers, each resolves its own credential as tenant id and returns only
\* rows tagged with it.
C1_OwnCredentialOwnRows ==
    \A c, d \in Calls :
        (/\ c # d /\ InFlight(c) /\ InFlight(d)
         /\ Truthy(Credential(c)) /\ Truthy(Credential(d))
         /\ Credential(c) # Credential(d))
        => /\ call[c].user_id # None => call[c].user_id = Credential(c)
           /\ call[c].out.kind = "return" =>
                \A r \in call[c].out.rows : People[r].user_id = Credential(c)

\* C2: at most one pool is ever created, and every caller of get_db got
\* that same pool.
C2_AtMostOnePool ==
    /\ pools_created <= 1
    /\ \A c, d \in Calls :
         (call[c].pool # 0 /\ call[d].pool # 0) => call[c].pool = call[d].pool

\* C3: for a call through the middleware, the slot holds the credential of
\* the call's headers from before the tool starts until the app has returned
\* or raised; once the call is done the slot is back at its prior value and
\* no longer holds the call's credential.
C3_SlotSetThenReset ==
    \A c \in Calls :
        /\ InFlight(c) => current_api_key[c] = Credential(c)
        /\ (call[c].pc = "done" /\ call[c].scope = "http") =>
              /\ current_api_key[c] = call[c].token
              /\ Truthy(Credential(c)) => current_api_key[c] # Credential(c)

C3_Witness ==
    \E c \in Calls :
        /\ call[c].pc = "done" /\ call[c].out.kind = "raise"
        /\ Credential(c) = K2 /\ call[c].queries > 0
        /\ current_api_key[c] = None

\* C4: the resolved id is the call's context value when that is non-empty,
\* else the environment's API_KEY when that is non-empty; resolution fails
\* exactly when both are empty, and then the call has issued no query.
C4_CredentialResolution ==
    \A c \in Calls :
        (call[c].scope = "http" /\ call[c].pc \notin {"idle", "app"}) =>
            /\ Truthy(Credential(c)) => call[c].user_id = Credential(c)
            /\ (~Truthy(Credential(c)) /\ Truthy(os_environ)) =>
                    call[c].user_id = os_environ
            /\ (~Truthy(Credential(c)) /\ ~Truthy(os_environ)) <=>
                    call[c].user_id = None
            /\ call[c].user_id = None =>
                    /\ call[c].out = OnException(call[c].input.op, "API_KEY not set")
                    /\ call[c].queries = 0 /\ call[c].pool = 0

C4_Witness ==
    \E c \in Calls :
        /\ call[c].pc = "done" /\ call[c].input.op = "search_network"
        /\ Credential(c) = <<>> /\ os_environ = <<>>
        /\ call[c].out.kind = "raise" /\ call[c].queries = 0

\* C5: when a keyword contains a single quote, filter_by_keywords still
\* returns only rows of the resolved tenant whose keyword text contains one
\* of the keywords.
C5_KeywordsAreLiterals ==
    \A c \in Calls :
        (/\ call[c].input.op = "filter_by_keywords" /\ Fetched(c)
         /\ \E i \in 1..Len(call[c].input.keywords) :
                "'" \in Range(call[c].input.keywords[i])
         /\ call[c].out.kind = "return")
        => \A r \in call[c].out.rows :
              /\ People[r].user_id = call[c].user_id
              /\ MatchesAnyKeyword(r, call[c].input.keywords)

\* C6: a query that fails in the database layer ends every tool with a
\* returned payload that carries a status and a message, never with a raised
\* exception.
C6_FailuresBecomePayloads ==
    \A c \in Calls :
        (Fetched(c) /\ DatabaseFailure(c)) =>
            /\ call[c].out.kind = "return"
            /\ {"status", "message"} \subseteq call[c].out.keys

\* C7: the connections out of a pool are exactly those of the calls inside
\* their async with block, so when every call has completed, by return or by
\* raise, none is borrowed and the pool can serve the next call.
C7_ConnectionsReturned ==
    /\ \A p \in PoolIds :
         borrowed[p] = Cardinality({c \in Calls :
                          call[c].pc \in {"fetch", "release"} /\ call[c].pool = p})
    /\ (\A c \in Calls : call[c].pc \in {"idle", "done"}) =>
         \A p \in PoolIds : borrowed[p] = 0 /\ borrowed[p] < MaxPoolSize

C7_Witness ==
    /\ \A c \in Calls : call[c].pc = "done"
    /\ \E c \in Calls : call[c].out.kind = "raise" /\ call[c].queries > 0
    /\ \E c \in Calls : call[c].out.kind = "return" /\ call[c].queries > 0
    /\ \A p \in PoolIds : borrowed[p] = 0

\* Call c is an export whose listing query ran and found no row
EmptyExport(c) ==
    /\ call[c].input.op \in {"export_network_table", "export_network_csv"}
    /\ call[c].user_id # None
    /\ TenantRows(call[c].user_id) = {}

\* C8 as claimed: an export of a tenant with zero rows returns a payload that
\* reports a row count (of 0).
C8_EmptyExportReportsRowCount ==
    \A c \in Calls :
        (EmptyExport(c) /\ Fetched(c) /\ ~DatabaseFailure(c)) =>
            /\ call[c].out.kind = "return"
            /\ "row_count" \in call[c].out.keys

\* C8 as amended: when the listing query of an export finds no row, the tool
\* returns (does not raise) the message "No data found in your network." with
\* no rows and no row count, as {status: "error", message} from the delimited
\* export and as plain text from the table export, and the step leaves the
\* artifact file as it was.
C8_EmptyExportNoArtifact ==
    [][\A c \in Calls :
         (/\ call[c].pc = "fetch" /\ call'[c].pc = "release"
          /\ EmptyExport(c)
          /\ call'[c].out # OnException(call[c].input.op, "query failed"))
         => /\ file' = file
            /\ call'[c].out.kind = "return"
            /\ call'[c].out.message = "No data found in your network."
            /\ call'[c].out.rows = {}
            /\ "row_count" \notin call'[c].out.keys
            /\ call[c].input.op = "export_network_csv" =>
                 /\ call'[c].out.status = "error"
                 /\ call'[c].out.keys = {"status", "message"}
            /\ call[c].input.op = "export_network_table" =>
                 call'[c].out.form = "text"]_vars

C8_Witness ==
    \E c \in Calls :
        /\ call[c].pc = "release" /\ call[c].input.op = "export_network_csv"
        /\ call[c].user_id = K0
        /\ call[c].out.message = "No data found in your network."
        /\ file.exists /\ file.rows # <<>>

\* C9: get_profile with a name that matches no row of the resolved tenant
\* returns the not-found payload and does not raise.
C9_NotFoundIsReturned ==
    \A c \in Calls :
        (/\ call[c].input.op = "get_profile" /\ Fetched(c)
         /\ ProfileMatches(call[c].user_id, call[c].input.name) = {}
         /\ call[c].out # OnException("get_profile", "query failed"))
        => /\ call[c].out.kind = "return"
           /\ call[c].out.keys = {"error"}
           /\ call[c].out.message = "No profile found for: "
           /\ call[c].out.rows = {}

C9_Witness ==
    \E c \in Calls :
        /\ call[c].pc = "done" /\ call[c].input.op = "get_profile"
        /\ call[c].input.name = <<"z">> /\ call[c].user_id = K1
        /\ call[c].out.kind = "return" /\ call[c].out.keys = {"error"}

\* C10: when several rows of the tenant match the name, get_profile returns
\* the first of them in ascending order of full name.
C10_FirstByName ==
    \A c \in Calls :
        (/\ call[c].input.op = "get_profile" /\ Fetched(c)
         /\ call[c].out.kind = "return" /\ call[c].out.rows # {})
        => call[c].out.rows =
             {Head(OrderByName(ProfileMatches(call[c].user_id, call[c].input.name)))}

\* C11: filter_by_keywords called with an empty keyword list, the database
\* answering, does not fail: it returns a JSON list that holds either no row
\* or rows of the tenant up to the limit.
C11_EmptyKeywordListReturns ==
    \A c \in Calls :
        (/\ call[c].input.op = "filter_by_keywords"
         /\ call[c].input.keywords = <<>>
         /\ Fetched(c)
         /\ call[c].out # OnException("filter_by_keywords", "query failed"))
            => /\ call[c].out.kind = "return"
               /\ \/ call[c].out.rows = {}
                  \/ call[c].out.rows \in
                        LimitAny(TenantRows(call[c].user_id), call[c].input.limit)

\* The row has been formatted as a line of the table
Formatted == person.pc \in {"table", "experiences", "csv"}

\* The tokens of a joined cell: the pieces between separators, trimmed
Tokens(text, sep) ==
    IF text = <<>> THEN {}
    ELSE {PyStrip(Split(text, sep)[i]) : i \in 1..Len(Split(text, sep))}

Null == <<"n", "u", "l", "l">>

\* The stored value is text that json.loads rejects
NotJson(value) == value.t = "str" /\ PyTruthy(value) /\ ~json_loads(value.s).ok

\* C12: in the skills cell and in the keywords cell of a formatted row no
\* token is empty after trimming or the text "null", and the keywords
\* '["ai","founder",""," null "]' are shown as "ai | founder".
C12_NoEmptyOrNullToken ==
    Formatted =>
        /\ \A tok \in Tokens(person.skills.text, <<",">>) : tok \notin {<<>>, Null}
        /\ \A tok \in Tokens(person.keywords.text, <<"|">>) : tok \notin {<<>>, Null}
        /\ person.row.keywords = PyText(JsonTokens)
              => person.keywords.text = Ai \o <<" ", "|", " ">> \o Founder

\* C13: formatting a row never raises, whatever its columns hold: a NULL or
\* empty column gives the empty cell, and text that json.loads rejects gives
\* the raw text as format_cell shows it.
C13_NormalizationNeverRaises ==
    /\ Formatted =>
        /\ ~person.skills.raised /\ ~person.keywords.raised /\ ~person.table.raised
        /\ ~PyTruthy(person.row.skills) => person.skills.text = <<>>
        /\ ~PyTruthy(person.row.keywords) => person.keywords.text = <<>>
        /\ NotJson(person.row.skills)
              => person.skills.text = format_cell(person.row.skills, 40)
        /\ (NotJson(person.row.keywords) /\ Head(PyStrip(person.row.keywords.s)) = "[")
              => person.keywords.text = format_cell(person.row.keywords, 40)
    /\ person.pc \in {"experiences", "csv"} =>
        /\ ~person.experiences.raised
        /\ ~PyTruthy(person.row.experiences) => person.experiences.text = <<>>
        /\ NotJson(person.row.experiences)
              => person.experiences.text = format_cell(person.row.experiences, 50)

\* A row whose skills, keywords and experiences are all malformed or not
\* JSON has been formatted
C13_Witness ==
    /\ person.pc = "experiences"
    /\ NotJson(person.row.skills)
    /\ NotJson(person.row.keywords) /\ Head(PyStrip(person.row.keywords.s)) = "["
    /\ NotJson(person.row.experiences)

\* C14 as stated: a column that is not valid JSON is shown verbatim, in the
\* skills cell and in the keywords cell.
C14_NonJsonVerbatim ==
    Formatted =>
        /\ NotJson(person.row.skills) => person.skills.text = person.row.skills.s
        /\ NotJson(person.row.keywords) => person.keywords.text = person.row.keywords.s

\* C14 (amended): skills that are not valid JSON are shown as the raw text
\* with its whitespace collapsed and cut to 40 characters, no token dropped
\* ("ai, founder, , null" as it is); keywords that do not start with "[" are
\* shown as their comma-separated tokens, trimmed, without the empty and the
\* null ones, joined by " | " ("ai, founder, , null" as "ai | founder").
C14_SkillsVerbatimKeywordsSplit ==
    Formatted =>
        /\ NotJson(person.row.skills)
              => person.skills.text =
                    Truncated(Join(<<" ">>, SplitWs(person.row.skills.s)), 40)
        /\ person.row.skills = PyText(DelimitedTokens)
              => person.skills.text = DelimitedTokens
        /\ person.row.keywords = PyText(DelimitedTokens)
              => person.keywords.text = Ai \o <<" ", "|", " ">> \o Founder
        /\ (/\ NotJson(person.row.keywords)
            /\ Head(PyStrip(person.row.keywords.s)) # "["
            /\ Len(person.keywords.text) < 40)
              => \A tok \in Tokens(person.keywords.text, <<" ", "|", " ">>) :
                    /\ tok # <<>> /\ Lower(tok) # Null
                    /\ tok \in Tokens(person.row.keywords.s, <<",">>)

\* Skills and keywords that both hold "ai, founder, , null" were formatted
C14_Witness ==
    /\ Formatted
    /\ person.row.skills = PyText(DelimitedTokens)
    /\ person.row.keywords = PyText(DelimitedTokens)

\* The column separators a Markdown reader finds in a line of a table: a
\* backslash escapes the backslash or the pipe that follows it, so a pipe
\* is a separator when an even number of backslashes stands before it
UnescapedPipes(s) ==
    LET Backslashes(i) ==
            LET before == {j \in 0..(i - 1) : j = 0 \/ s[j] # "\\"}
            IN  (i - 1) - (CHOOSE j \in before : \A k \in before : k <= j)
    IN  Cardinality({i \in 1..Len(s) : s[i] = "|" /\ Backslashes(i) % 2 = 0})

\* C15: whatever the cells of a row hold, its line of the table has exactly
\* the seven unescaped separators of its six columns.
C15_SevenUnescapedSeparators ==
    (Formatted /\ ~person.table.raised) => UnescapedPipes(person.table.text) = 7

\* The fields csv.reader reads from a line (excel dialect).  A comma or a
\* line end separates fields when an even number of quotes stands before
\* it; of a quoted field the outer quotes go and "" becomes "
CsvFields(s) ==
    LET QuotesBefore(t, i) == Cardinality({j \in 1..(i - 1) : t[j] = "\""})
        ends == {i \in 1..Len(s) : /\ s[i] \in {",", "\r"}
                                    /\ QuotesBefore(s, i) % 2 = 0}
        Start(k) == IF k = 1 THEN 1
                    ELSE 1 + CHOOSE i \in ends :
                                Cardinality({j \in ends : j < i}) = k - 2
        End(k) == (CHOOSE i \in ends : Cardinality({j \in ends : j < i}) = k - 1) - 1
        Inner(f) == SubSeq(f, 2, Len(f) - 1)
        Kept(t) == SelectSeq([i \in 1..Len(t) |-> i],
                             LAMBDA i : t[i] # "\"" \/ QuotesBefore(t, i) % 2 = 0)
        Undoubled(t) == [i \in 1..Len(Kept(t)) |-> t[Kept(t)[i]]]
        Field(f) == IF f # <<>> /\ Head(f) = "\"" THEN Undoubled(Inner(f)) ELSE f
    IN  [k \in 1..Cardinality(ends) |-> Field(SubSeq(s, Start(k), End(k)))]

\* The elements of a decoded list
Elements(loaded) == {loaded.v.items[i] : i \in 1..Len(loaded.v.items)}

\* The cell of a list-valued column read back from the CSV line decodes to
\* the elements that the stored text decodes to, and is the stored text
SameElements(stored, cell) ==
    (stored.t = "str" /\ json_loads(stored.s).ok /\ json_loads(stored.s).v.t = "list")
        => /\ json_loads(cell).ok
           /\ json_loads(cell).v.t = "list"
           /\ Elements(json_loads(cell)) = Elements(json_loads(stored.s))
           /\ cell = stored.s

\* C16: reading the CSV line of a row back and JSON-decoding its
\* list-valued cells gives, for each, the elements that JSON-decoding the
\* stored value gives, and the cell is in the stored format.
C16_CsvRoundTrip ==
    person.pc = "csv" =>
        \A i \in 1..Len(fieldnames) :
            fieldnames[i] \in ListFields
                => SameElements(person.row[fieldnames[i]],
                                CsvFields(person.csv)[i])

\* C17: when export_network_csv reported success, run_export returned 0 and
\* the CSV with the tenant's rows is at output_path; it returned non-zero
\* only when the export had failed.
C17_RunExportZeroOnSuccess ==
    (script.pc = "exit" /\ script.program = "export_csv.py") =>
        /\ script.status = "success" =>
              /\ script.rc = 0
              /\ FileAt(script.output_path, file, script) = FileOf(script.api_key)
        /\ script.rc # 0 => script.status # "success"

\* C18: the credential of a run is in no line that the run printed and in
\* no cell of a CSV file in the working directory.
C18_CredentialNeverPrintedOrPersisted ==
    Truthy(script.api_key) =>
        /\ \A i \in 1..Len(script.stdout) : ~In(script.api_key, script.stdout[i])
        /\ \A f \in {file, script.data_csv, script.out_csv} :
              \A cell \in ArtifactCells(f) : ~In(script.api_key, cell)

\* C19: the file that the download handler served to a caller holds only
\* rows of the tenant the caller's request resolved to.
C19_DownloadServesOwnRows ==
    \A c \in Calls :
        (call[c].scope = "download" /\ call[c].pc = "done" /\ call[c].out.form = "file")
            => \A r \in call[c].out.rows : People[r].user_id = call[c].user_id

====
